---- MODULE Spec2Model ----
(***************************************************************************)
(* Model of the syndication endpoint: lib/utils.js (post selection, origin *)
(* matching, syndicateToTargets) and the controller (syndicatePost, the    *)
(* single-post and batch modes of syndicateController.post).               *)
(*                                                                         *)
(* A JavaScript string is a sequence of tokens (chunks of characters), so  *)
(* that String.prototype.includes and URL parsing are computed, not        *)
(* assumed: "https://a.example.com/@user" is                               *)
(* <<"https://", "a.example", ".com", "/@user">>.                           *)
(***************************************************************************)
EXTENDS Integers, Sequences, FiniteSets, TLC

\* ------------------------------------------------------------------ bounds
\* Number of posts in the store.
MaxPosts == 2
\* Number of requests the endpoint handles in one behaviour.
MaxRuns == 2
\* Longest mp-syndicate-to list the direct calls of syndicateToTargets draw.
MaxIds == 2

\* ----------------------------------------------------------------- strings
Scheme == "https://"
HostTokens == {"a.example", "A.example", "b.example"}
HostSuffix == ".com"

\* The value `undefined` where a string is expected.
Undef == <<"undefined">>

\* ASCII lower-casing of a host, as the URL parser does it.
Lower(h) == IF h = "A.example" THEN "a.example" ELSE h

\* new URL(s) succeeds: a scheme followed by a host.
IsUrl(s) == Len(s) >= 2 /\ s[1] = Scheme /\ s[2] \in HostTokens

\* new URL(s).origin, for a parseable s: scheme and lower-cased host; the
\* path is dropped.
Origin(s) ==
  <<Scheme, Lower(s[2])>> \o
    (IF Len(s) >= 3 /\ s[3] = HostSuffix THEN <<HostSuffix>> ELSE <<>>)

\* s.includes(t): t occurs in s as a contiguous run.
Includes(s, t) ==
  \E i \in 0..(Len(s) - Len(t)) : SubSeq(s, i + 1, i + Len(t)) = t

\* Identifiers and URLs the model draws from.
IdA == <<Scheme, "a.example">>
IdAUser == <<Scheme, "a.example", "/@user">>
IdAUpper == <<Scheme, "A.example", "/@user">>
IdACom == <<Scheme, "a.example", HostSuffix, "/@user">>
IdB == <<Scheme, "b.example">>
IdBad == <<"mastodon">>
UrlA0 == <<Scheme, "a.example", "/post/0">>
UrlB0 == <<Scheme, "b.example", "/post/0">>

\* A property value: undefined, a single string, or an array of strings.
\* val always holds the strings (one for a scalar, none for undefined).
NoValue == [kind |-> "undefined", val |-> <<>>]
Scalar(s) == [kind |-> "string", val |-> <<s>>]
Array(ss) == [kind |-> "array", val |-> ss]

\* Sequences over S of length at most n.
SeqUpTo(S, n) == UNION {[1..m -> S] : m \in 0..n}

\* ------------------------------------------------------- utils.js: matching
\* Array.prototype.some over syndicatedUrls from index i: "true", "false",
\* or "throw" when new URL(url) or syndicateTo.includes raises.
RECURSIVE SomeHasOrigin(_, _, _)
SomeHasOrigin(syndicatedUrls, syndicateTo, i) ==
  IF i > Len(syndicatedUrls) THEN "false"
  ELSE IF ~IsUrl(syndicatedUrls[i]) THEN "throw"
  ELSE IF syndicateTo = Undef THEN "throw"
  ELSE IF Includes(syndicateTo, Origin(syndicatedUrls[i])) THEN "true"
  ELSE SomeHasOrigin(syndicatedUrls, syndicateTo, i + 1)

hasSyndicationUrl(syndicatedUrls, syndicateTo) ==
  SomeHasOrigin(syndicatedUrls, syndicateTo, 1)

\* Array.prototype.find over syndicationTargets from index i: the index of
\* the first target whose uid has the origin of syndicateTo, 0 when there is
\* none (undefined), -1 when new URL raises.
RECURSIVE FindTarget(_, _, _)
FindTarget(syndicationTargets, syndicateTo, i) ==
  IF i > Len(syndicationTargets) THEN 0
  ELSE IF ~syndicationTargets[i].hasUid
    THEN FindTarget(syndicationTargets, syndicateTo, i + 1)
  ELSE IF ~IsUrl(syndicationTargets[i].uid) THEN -1
  ELSE IF ~IsUrl(syndicateTo) THEN -1
  ELSE IF Origin(syndicationTargets[i].uid) = Origin(syndicateTo) THEN i
  ELSE FindTarget(syndicationTargets, syndicateTo, i + 1)

\* A resolution that takes the first target with a uid, whatever its origin.
GetSyndicationTargetFirst(syndicationTargets, syndicateTo) ==
  LET withUid == {i \in DOMAIN syndicationTargets :
                    syndicationTargets[i].hasUid}
  IN IF withUid = {} THEN 0
     ELSE CHOOSE i \in withUid : \A j \in withUid : i <= j

getSyndicationTarget(syndicationTargets, syndicateTo) ==
  FindTarget(syndicationTargets, syndicateTo, 1)

\* ------------------------------------------------------------------- state
VARIABLES
  targets,          \* publication.syndicationTargets: <<[hasUid, uid]>>
  store,            \* the posts collection: url -> properties
  runs,             \* requests handled so far
  pc,               \* where the handler is suspended
  mode,             \* "single", "batch", "direct" (a direct call), "none"
  force,            \* the force option syndicatePost was given
  items,            \* allPostData
  idx,              \* position of postData in allPostData
  postData,         \* properties of the post being syndicated
  syndicateToUrls,  \* syndicateToTargets: the normalised request
  k,                \* syndicateToTargets: position in syndicateToUrls
  syndicatedUrls,   \* syndicateToTargets: accumulator
  failedTargets,    \* syndicateToTargets: accumulator
  cur,              \* target whose syndicate() is awaited (0: none)
  request,          \* body of the Micropub update last sent
  results,          \* batch: per-post outcomes
  successCount,
  failCount,
  response,         \* what the controller answered
  log,              \* history of this request: items, attempts, updates, delays
  first,            \* direct calls: what the first call was given and returned
  last,             \* history: per post, the targets that failed and that
                    \* succeeded in the batch run that last updated it
  source_url,       \* request.query.source_url of the request (0: absent)
  handlers          \* overlapping requests: the locals of each one's handler

vars == <<targets, store, runs, pc, mode, force, items, idx, postData,
          syndicateToUrls, k, syndicatedUrls, failedTargets, cur, request,
          results, successCount, failCount, response, log, first, last,
          source_url, handlers>>

\* Locals of syndicateToTargets and syndicatePost.
callVars == <<postData, force, syndicateToUrls, k, syndicatedUrls,
              failedTargets, cur>>
\* Locals of the batch loop.
batchVars == <<items, idx, results, successCount, failCount>>

\* --------------------------------------------------------------- registry
TargetA == [hasUid |-> TRUE, uid |-> IdAUser]
TargetACom == [hasUid |-> TRUE, uid |-> IdACom]
TargetB == [hasUid |-> TRUE, uid |-> IdB]
TargetNoUid == [hasUid |-> FALSE, uid |-> <<>>]

\* What target.syndicate may resolve to: a URL on the target's own service
\* ("url"), nothing ("empty"), or a rejection ("throw").
Outcomes == {"url", "empty", "throw"}
SyndicatedUrlOf(target) == Origin(target.uid) \o <<"/post/1">>

\* ------------------------------------------------------------- post store
Urls == 1..MaxPosts
NoPost == [url |-> 0, published |-> 0, status |-> "published",
           mp |-> NoValue, syndication |-> NoValue]

\* find({mp-syndicate-to: {$exists: true}, post-status: {$ne: "draft"}})
Pending(st) ==
  {u \in DOMAIN st : st[u].mp.kind # "undefined" /\ st[u].status # "draft"}

\* The orders in which sort({published: -1}) may return the posts S.
SortedByPublished(st, S) ==
  {o \in [1..Cardinality(S) -> S] :
     /\ \A i, j \in DOMAIN o : i # j => o[i] # o[j]
     /\ \A i, j \in DOMAIN o : i < j => st[o[i]].published >= st[o[j]].published}

\* A query that does not exclude drafts.
GetAllPostDataWithDrafts(st) ==
  SortedByPublished(st, {u \in DOMAIN st : st[u].mp.kind # "undefined"})

\* getAllPostData: the url sequences the query may return.
getAllPostData(st) == SortedByPublished(st, Pending(st))

\* getPostData(postsCollection, url): findOne({"properties.url": url}).
getPostData(st, url) == IF url \in DOMAIN st THEN st[url] ELSE NoPost

\* ----------------------------------------------------- syndicateToTargets
\* Iterating a string visits its characters, one one-character string each.
Characters(s) == [i \in 1..Len(s) |-> <<s[i]>>]

\* The request as the loop sees it when the type test is always truthy:
\* a scalar is iterated as it is.
NormaliseAlwaysArray(mp) ==
  IF mp.kind = "array" THEN mp.val
  ELSE IF mp.kind = "string" THEN Characters(mp.val[1])
  ELSE <<Undef>>

\* A normalisation that takes an absent request for an empty one.
NormaliseAbsentAsEmpty(mp) ==
  IF mp.kind = "array" THEN mp.val
  ELSE IF mp.kind = "string" THEN <<mp.val[1]>>
  ELSE <<>>

\* Array.isArray(syndicateTo) ? syndicateTo : [syndicateTo]
Normalise(mp) ==
  IF mp.kind = "array" THEN mp.val
  ELSE IF mp.kind = "string" THEN <<mp.val[1]>>
  ELSE <<Undef>>

\* properties.syndication || []
SeedSyndicatedUrls(syndication) ==
  IF syndication.kind = "array" THEN syndication.val ELSE <<>>

\* { ...(failedTargets.length > 0 && { failedTargets }), syndicatedUrls }
TargetsResult(failed, synd) ==
  [hasFailedTargets |-> Len(failed) > 0, failedTargets |-> failed,
   syndicatedUrls |-> synd]

NoResult == [hasFailedTargets |-> FALSE, failedTargets |-> <<>>,
             syndicatedUrls |-> <<>>]

\* ------------------------------------------------------------ syndicatePost
\* A body that leaves mp-syndicate-to as it is when a target failed.
UpdateBodyWithoutReplace(url, result) ==
  [url |-> url,
   delete |-> IF ~result.hasFailedTargets THEN <<"mp-syndicate-to">> ELSE <<>>,
   replaceMp |-> [present |-> FALSE, val |-> <<>>],
   replaceSyndication |-> [present |-> TRUE, val |-> result.syndicatedUrls]]

\* A body that never deletes mp-syndicate-to.
UpdateBodyNeverDelete(url, result) ==
  [url |-> url,
   delete |-> <<>>,
   replaceMp |-> [present |-> result.hasFailedTargets,
                  val |-> result.failedTargets],
   replaceSyndication |-> [present |-> TRUE, val |-> result.syndicatedUrls]]

\* A body that deletes mp-syndicate-to whatever the result.
UpdateBodyAlwaysDelete(url, result) ==
  [url |-> url,
   delete |-> <<"mp-syndicate-to">>,
   replaceMp |-> [present |-> result.hasFailedTargets,
                  val |-> result.failedTargets],
   replaceSyndication |-> [present |-> TRUE, val |-> result.syndicatedUrls]]

\* The JSON body of the Micropub update: delete when failedTargets is absent,
\* replace["mp-syndicate-to"] when it is present, replace.syndication always
\* (an array is truthy).
UpdateBody(url, result) ==
  [url |-> url,
   delete |-> IF ~result.hasFailedTargets THEN <<"mp-syndicate-to">> ELSE <<>>,
   replaceMp |-> [present |-> result.hasFailedTargets,
                  val |-> result.failedTargets],
   replaceSyndication |-> [present |-> TRUE, val |-> result.syndicatedUrls]]

NoRequest == [url |-> 0, delete |-> <<>>,
              replaceMp |-> [present |-> FALSE, val |-> <<>>],
              replaceSyndication |-> [present |-> FALSE, val |-> <<>>]]

\* The body's delete list names mp-syndicate-to.
DeletesPending(body) ==
  \E i \in DOMAIN body.delete : body.delete[i] = "mp-syndicate-to"

\* The update endpoint applying an accepted request to the post it names.
MicropubUpdate(st, body) ==
  IF body.url \notin DOMAIN st THEN st
  ELSE [st EXCEPT ![body.url] =
         [@ EXCEPT
            !.mp = IF DeletesPending(body)
                     THEN NoValue
                   ELSE IF body.replaceMp.present
                     THEN Array(body.replaceMp.val)
                   ELSE @,
            !.syndication = IF body.replaceSyndication.present
                              THEN Array(body.replaceSyndication.val)
                            ELSE @]]

\* ------------------------------------------------------------------ history
Event(ev, post, target, id) ==
  [ev |-> ev, post |-> post, target |-> target, id |-> id, out |-> "-"]

DirectModes == {"direct", "again", "aslist"}
NoFirst == [given |-> NoPost, log |-> <<>>, result |-> NoResult,
            threw |-> FALSE]
NoResponse == [type |-> "none", what |-> "-", failed |-> FALSE]

\* A success entry that names failedTargets whether or not any target failed.
SucceededWithFailedTargets(url, result) ==
  [url |-> url, success |-> TRUE, syndicatedUrls |-> result.syndicatedUrls,
   hasFailedTargets |-> TRUE, failedTargets |-> result.failedTargets]

\* Entries of the batch results list.
Succeeded(url, result) ==
  [url |-> url, success |-> TRUE, syndicatedUrls |-> result.syndicatedUrls,
   hasFailedTargets |-> result.hasFailedTargets,
   failedTargets |-> result.failedTargets]
Failed(url) ==
  [url |-> url, success |-> FALSE, syndicatedUrls |-> <<>>,
   hasFailedTargets |-> FALSE, failedTargets |-> <<>>]

\* ------------------------------------------------------------ control flow
\* syndicateToTargets is entered with properties p (lines 101-109);
\* syndicatePost was given force f, which syndicateToTargets does not take.
BeginCall(p, f) ==
  /\ postData' = p
  /\ force' = f
  /\ syndicateToUrls' = Normalise(p.mp)
  /\ k' = 1
  /\ syndicatedUrls' = SeedSyndicatedUrls(p.syndication)
  /\ failedTargets' = <<>>
  /\ cur' = 0

\* A delay test that skips the pause before the last post.
NeedsDelayShort(n, i) == i < n - 1

\* allPostData.indexOf(postData) < allPostData.length - 1, for the i-th of n.
NeedsDelay(n, i) == i < n

\* The batch loop takes its next post.
NextItem(lg) ==
  /\ idx' = idx + 1
  /\ BeginCall(items[idx + 1], FALSE)
  /\ log' = Append(lg, Event("item", items[idx + 1].url, 0, <<>>))
  /\ pc' = "loop"

\* The batch loop is over: the summary is sent.
BatchDone(lg) ==
  /\ pc' = "idle"
  /\ log' = lg
  /\ response' = [type |-> "json", what |-> "batch", failed |-> FALSE]
  /\ UNCHANGED <<idx, callVars>>

\* A controller without the try/catch around each post of the batch.
CatcherOuterOnly(m) == "request"

\* Where an error thrown by syndicatePost is caught: by the try/catch around
\* one post of the batch, or by the one around the whole request.
Catcher(m) == IF m = "batch" THEN "item" ELSE "request"

\* The pipeline of the current post ended: syndicatePost returned (success)
\* or threw. lg is the history so far.
ItemEnd(success, lg) ==
  LET result == TargetsResult(failedTargets, syndicatedUrls) IN
  /\ UNCHANGED <<targets, source_url, handlers, mode, items>>
  /\ CASE mode = "batch" /\ ~success /\ Catcher(mode) = "request" ->
          /\ pc' = "idle"
          /\ log' = lg
          /\ response' = [type |-> "next", what |-> "error", failed |-> FALSE]
          /\ UNCHANGED <<runs, first, idx, results, successCount, failCount,
                         callVars>>
       [] mode = "batch" /\ (success \/ Catcher(mode) = "item") ->
          /\ results' = Append(results,
                               IF success THEN Succeeded(postData.url, result)
                               ELSE Failed(postData.url))
          /\ successCount' =
               successCount + (IF success THEN 1 ELSE 0)
          /\ failCount' =
               failCount + (IF success THEN 0 ELSE 1)
          /\ UNCHANGED <<runs, first>>
          /\ IF NeedsDelay(Len(items), idx)
               THEN /\ pc' = "delay"
                    /\ log' = lg
                    /\ UNCHANGED <<idx, callVars, response>>
             ELSE IF idx < Len(items)
               THEN NextItem(lg) /\ UNCHANGED response
             ELSE BatchDone(lg)
       [] mode = "single" ->
          /\ pc' = "idle"
          /\ log' = lg
          /\ IF success
               THEN \E t \in {"json", "redirect"} :
                      response' = [type |-> t, what |-> "post",
                                   failed |-> result.hasFailedTargets]
             ELSE response' = [type |-> "next", what |-> "error",
                               failed |-> FALSE]
          /\ UNCHANGED <<runs, first, idx, results, successCount, failCount,
                         callVars>>
       [] mode \in DirectModes ->
          /\ pc' = "returned"
          /\ log' = lg
          /\ runs' = runs + 1
          /\ response' = [type |-> IF success THEN "returned" ELSE "threw",
                          what |-> "-", failed |-> result.hasFailedTargets]
          /\ first' = IF mode = "direct"
                        THEN [first EXCEPT !.log = lg, !.result = result,
                                           !.threw = ~success]
                      ELSE first
          /\ UNCHANGED <<idx, results, successCount, failCount, callVars>>

\* ----------------------------------------------------------------- actions
\* One iteration of the for-loop of syndicateToTargets, up to its await.
LoopStep ==
  /\ pc = "loop"
  /\ k <= Len(syndicateToUrls)
  /\ LET url == syndicateToUrls[k]
         target == getSyndicationTarget(targets, url)
         alreadySyndicated ==
           IF target = -1 THEN "throw"
           ELSE hasSyndicationUrl(syndicatedUrls, url)
     IN IF alreadySyndicated = "throw"
          THEN /\ ItemEnd(FALSE,
                            Append(log, Event("throw", postData.url, 0, <<>>)))
               /\ UNCHANGED <<store, request, last>>
        ELSE IF target # 0 /\ alreadySyndicated = "false"
          THEN /\ pc' = "syndicate"
               /\ cur' = target
               /\ log' = Append(log, Event("attempt", postData.url, target, url))
               /\ UNCHANGED <<targets, source_url, handlers, store, runs, mode, force, items, idx,
                              postData, syndicateToUrls, k, syndicatedUrls,
                              failedTargets, request, results, successCount,
                              failCount, response, first, last>>
        ELSE /\ k' = k + 1
             /\ UNCHANGED <<targets, source_url, handlers, store, runs, pc, mode, force, items, idx,
                            postData, syndicateToUrls, syndicatedUrls,
                            failedTargets, cur, request, results, successCount,
                            failCount, response, log, first, last>>

\* What a failed delivery appends to failedTargets.
FailedEntry(target, url) == target.uid

\* A loop that a failed delivery ends.
ContinueAtBreaking(i, o, n) == IF o = "url" THEN i + 1 ELSE n + 1

\* for (const url of syndicateToUrls): where the loop over n identifiers goes
\* on after the delivery for the i-th settled with o, inside the try/catch.
ContinueAt(i, o, n) == i + 1

\* A loop that takes whatever a delivery returned for a URL.
DeliveredUnlessThrown(o) == o # "throw"

\* if (syndicatedUrl), inside the try: the delivery returned a URL.
Delivered(o) == o = "url"

\* A loop that puts a returned URL at the head of the list.
PushUrlFirst(urls, syndicatedUrl) == <<syndicatedUrl>> \o urls

\* syndicatedUrls.push(syndicatedUrl)
PushUrl(urls, syndicatedUrl) == Append(urls, syndicatedUrl)

\* target.syndicate settles with outcome o.
SyndicateReturn(o) ==
  /\ pc = "syndicate"
  /\ mode = "aslist" /\ Len(log) <= Len(first.log)
            /\ first.log[Len(log)].ev = "attempt"
       => o = first.log[Len(log)].out
  /\ IF Delivered(o)
       THEN /\ syndicatedUrls' =
                 PushUrl(syndicatedUrls, SyndicatedUrlOf(targets[cur]))
            /\ postData' =
                 IF postData.syndication.kind = "array"
                   THEN [postData EXCEPT !.syndication.val = syndicatedUrls']
                 ELSE postData
            /\ UNCHANGED failedTargets
     ELSE /\ failedTargets' =
               Append(failedTargets,
                      FailedEntry(targets[cur], syndicateToUrls[k]))
          /\ UNCHANGED <<syndicatedUrls, postData>>
  /\ k' = ContinueAt(k, o, Len(syndicateToUrls))
  /\ cur' = 0
  /\ pc' = "loop"
  /\ log' = IF mode \in DirectModes
              THEN [log EXCEPT ![Len(log)].out = o]
            ELSE log
  /\ UNCHANGED <<targets, source_url, handlers, store, runs, mode, force, items, idx,
                 syndicateToUrls, request, results, successCount, failCount,
                 response, first, last>>

\* syndicateToTargets returned to syndicatePost, which sends the update.
SendUpdate ==
  /\ pc = "loop"
  /\ k > Len(syndicateToUrls)
  /\ mode \in {"single", "batch"}
  /\ request' = UpdateBody(postData.url,
                           TargetsResult(failedTargets, syndicatedUrls))
  /\ log' = Append(log, Event("update", postData.url, 0, <<>>))
  /\ pc' = "fetch"
  /\ UNCHANGED <<targets, source_url, handlers, store, runs, mode, items, idx, results,
                 successCount, failCount, response, first, last, callVars>>

\* The targets attempted for post u in history lg.
Attempted(lg, u) ==
  {lg[i].target : i \in {j \in DOMAIN lg :
                           lg[j].ev = "attempt" /\ lg[j].post = u}}

NoLast == [batch |-> FALSE, failed |-> {}, succeeded |-> {}]

\* What the accepted update of the current post records: the targets whose
\* uid is in failedTargets, and the other targets attempted.
LastOf(m, lg) ==
  LET tried == Attempted(lg, postData.url)
      lost == {t \in tried : \E i \in DOMAIN failedTargets :
                                failedTargets[i] = targets[t].uid}
  IN [batch |-> m = "batch", failed |-> lost, succeeded |-> tried \ lost]

\* A syndicatePost that does not look at the status of the answer.
ResponseOkAlways(ok) == TRUE

\* micropubResponse.ok, tested before the answer is read.
ResponseOk(ok) == ok

\* The update endpoint answered: ok (with a JSON body), or a non-success
\* status, which syndicatePost turns into a thrown error.
FetchReturn(ok) ==
  /\ pc = "fetch"
  /\ store' = IF ok THEN MicropubUpdate(store, request) ELSE store
  /\ UNCHANGED request
  /\ last' = IF ok /\ postData.url \in DOMAIN last
               THEN [last EXCEPT ![postData.url] = LastOf(mode, log)]
             ELSE last
  /\ ItemEnd(ResponseOk(ok), [log EXCEPT ![Len(log)].out =
                              IF ok THEN "ok" ELSE "rejected"])

\* delay(2000) elapsed.
DelayDone ==
  /\ pc = "delay"
  /\ LET lg == Append(log, Event("delay", 0, 0, <<>>)) IN
       IF idx < Len(items)
         THEN NextItem(lg) /\ UNCHANGED response
       ELSE BatchDone(lg)
  /\ UNCHANGED <<targets, source_url, handlers, store, runs, mode, items, request, results,
                 successCount, failCount, first, last>>

\* A controller that goes on without any syndication target.
NoTargetsConfiguredSkipped(syndicationTargets) == FALSE

\* syndicationTargets.length === 0
NoTargetsConfigured(syndicationTargets) == Len(syndicationTargets) = 0

\* syndicateController.post up to its first await inside syndicatePost, with
\* the posts collection present. sourceUrl = 0: no source_url was given
\* (batch mode).
Post(sourceUrl) ==
  /\ pc = "idle"
  /\ runs < MaxRuns
  /\ runs' = runs + 1
  /\ request' = NoRequest
  /\ results' = <<>>
  /\ successCount' = 0
  /\ failCount' = 0
  /\ source_url' = sourceUrl
  /\ UNCHANGED <<targets, handlers, store, first, last>>
  /\ IF NoTargetsConfigured(targets)
       THEN /\ response' = [type |-> "json", what |-> "noTargets",
                            failed |-> FALSE]
            /\ mode' = "none"
            /\ log' = <<>>
            /\ UNCHANGED <<pc, items, idx, callVars>>
     ELSE IF sourceUrl # 0
       THEN LET p == getPostData(store, sourceUrl) IN
            /\ mode' = "single"
            /\ items' = <<>>
            /\ idx' = 0
            /\ IF p.url = 0
                 THEN /\ response' = [type |-> "json", what |-> "noPost",
                                      failed |-> FALSE]
                      /\ log' = <<>>
                      /\ UNCHANGED <<pc, callVars>>
               ELSE /\ response' = NoResponse
                    /\ BeginCall(p, TRUE)
                    /\ log' = <<Event("item", p.url, 0, <<>>)>>
                    /\ pc' = "loop"
     ELSE \E o \in getAllPostData(store) :
            /\ mode' = "batch"
            /\ items' = [i \in DOMAIN o |-> store[o[i]]]
            /\ IF Len(o) = 0
                 THEN /\ response' = [type |-> "json", what |-> "noPending",
                                      failed |-> FALSE]
                      /\ idx' = 0
                      /\ log' = <<>>
                      /\ UNCHANGED <<pc, callVars>>
               ELSE /\ response' = NoResponse
                    /\ idx' = 1
                    /\ BeginCall(store[o[1]], FALSE)
                    /\ log' = <<Event("item", o[1], 0, <<>>)>>
                    /\ pc' = "loop"

\* ------------------------------------------------- system: inputs and spec
\* The registries the endpoint is run with: none configured, and one with an
\* entry without uid followed by three services, two of which have origins
\* where one is a prefix of the other.
Registries == {<<>>, <<TargetNoUid, TargetA, TargetACom, TargetB>>}

\* The shapes of stored posts: what is pending and what was syndicated.
PostShapes ==
  {[status |-> "published", mp |-> Array(<<IdA, IdACom>>),
    syndication |-> NoValue],
   [status |-> "published", mp |-> Scalar(IdB), syndication |-> NoValue],
   [status |-> "draft", mp |-> Array(<<IdB>>), syndication |-> NoValue],
   [status |-> "published", mp |-> NoValue,
    syndication |-> Array(<<UrlA0>>)],
   [status |-> "published", mp |-> Array(<<IdAUpper, IdB>>),
    syndication |-> Array(<<UrlB0>>)],
   [status |-> "published", mp |-> Array(<<IdBad>>),
    syndication |-> NoValue]}

\* Publication dates: the store holds the posts oldest first, or newest
\* first. Every shape is tried at every position.
PublishedOrders == {[u \in Urls |-> u], [u \in Urls |-> MaxPosts + 1 - u]}

Stores ==
  {[u \in Urls |-> [url |-> u, published |-> pub[u], status |-> sh[u].status,
                    mp |-> sh[u].mp, syndication |-> sh[u].syndication]] :
     sh \in [Urls -> PostShapes], pub \in PublishedOrders}

Idle ==
  /\ pc = "idle"
  /\ runs = 0
  /\ mode = "none"
  /\ force = FALSE
  /\ items = <<>>
  /\ idx = 0
  /\ postData = NoPost
  /\ syndicateToUrls = <<>>
  /\ k = 1
  /\ syndicatedUrls = <<>>
  /\ failedTargets = <<>>
  /\ cur = 0
  /\ request = NoRequest
  /\ results = <<>>
  /\ successCount = 0
  /\ failCount = 0
  /\ response = NoResponse
  /\ log = <<>>
  /\ first = NoFirst
  /\ last = [u \in Urls |-> NoLast]
  /\ source_url = 0
  /\ handlers = <<>>

Init ==
  /\ targets \in Registries
  /\ store \in Stores
  /\ Idle

Next ==
  \/ \E sourceUrl \in 0..(MaxPosts + 1) : Post(sourceUrl)
  \/ LoopStep
  \/ \E o \in Outcomes : SyndicateReturn(o)
  \/ SendUpdate
  \/ \E ok \in BOOLEAN : FetchReturn(ok)
  \/ DelayDone

Spec == Init /\ [][Next]_vars

\* Every awaited call settles (target.syndicate, fetch, delay) and the code
\* between two awaits runs on.
Fairness ==
  /\ WF_vars(LoopStep)
  /\ WF_vars(\E o \in Outcomes : SyndicateReturn(o))
  /\ WF_vars(SendUpdate)
  /\ WF_vars(\E ok \in BOOLEAN : FetchReturn(ok))
  /\ WF_vars(DelayDone)

\* -------------------------------------------- a registry that grows
\* The endpoint run with one service registered, on posts that name that
\* service, a service not registered, the same identifier twice, or no
\* URL; the second service is registered later, between two requests.
RunShapes ==
  <<[status |-> "published", mp |-> Array(<<IdA, IdB>>),
     syndication |-> NoValue],
    [status |-> "published", mp |-> Array(<<IdAUpper, IdAUpper>>),
     syndication |-> NoValue],
    [status |-> "published", mp |-> Scalar(IdB), syndication |-> NoValue],
    [status |-> "published", mp |-> Array(<<IdBad>>),
     syndication |-> NoValue]>>

\* Every combination of shapes, each in one order of the posts: newer
\* posts take later shapes.
RunStores ==
  {[u \in Urls |-> [url |-> u, published |-> u,
                    status |-> RunShapes[sh[u]].status,
                    mp |-> RunShapes[sh[u]].mp,
                    syndication |-> RunShapes[sh[u]].syndication]] :
     sh \in {f \in [Urls -> DOMAIN RunShapes] :
               \A u, v \in Urls : u < v => f[u] <= f[v]}}

InitRuns ==
  /\ targets = <<TargetA>>
  /\ store \in RunStores
  /\ Idle

\* The publication is given one more syndicator while no request is handled.
RegisterTarget ==
  /\ pc = "idle"
  /\ Len(targets) = 1
  /\ targets' = Append(targets, TargetB)
  /\ UNCHANGED <<store, runs, pc, mode, force, items, idx, postData,
                 syndicateToUrls, k, syndicatedUrls, failedTargets, cur,
                 request, results, successCount, failCount, response, log,
                 first, last, source_url, handlers>>

\* Batch requests only: the trigger of the cron job and of the webhook.
NextRuns ==
  \/ Post(0)
  \/ LoopStep
  \/ \E o \in Outcomes : SyndicateReturn(o)
  \/ SendUpdate
  \/ \E ok \in BOOLEAN : FetchReturn(ok)
  \/ DelayDone
  \/ RegisterTarget

SpecRuns == InitRuns /\ [][NextRuns]_vars

SpecRunsFair == SpecRuns /\ Fairness

\* ------------------------------------ direct calls of syndicateToTargets
\* syndicateToTargets called as a function: on drawn properties, and then a
\* second time, either on the syndication list the first call returned or
\* on the same post with its scalar request wrapped in a list. The second
\* kind of call meets the delivery outcomes the first one met.
DirectIds == {IdA, IdAUpper, IdACom, IdB, IdBad}

DirectRegistries ==
  {<<TargetNoUid, TargetA, TargetACom, TargetB>>, <<TargetA>>,
   <<TargetB, TargetNoUid>>}

DirectInputs ==
  {[url |-> 1, published |-> 1, status |-> "published", mp |-> mp,
    syndication |-> sy] :
     mp \in {NoValue} \cup {Scalar(x) : x \in DirectIds}
              \cup {Array(xs) : xs \in SeqUpTo(DirectIds, MaxIds)},
     sy \in {NoValue, Array(<<>>), Array(<<UrlA0>>), Array(<<UrlB0, UrlA0>>)}}

InitTargets ==
  /\ targets \in DirectRegistries
  /\ store = <<>>
  /\ pc = "start"
  /\ runs = 0
  /\ mode = "direct"
  /\ force = FALSE
  /\ items = <<>>
  /\ idx = 0
  /\ postData = NoPost
  /\ syndicateToUrls = <<>>
  /\ k = 1
  /\ syndicatedUrls = <<>>
  /\ failedTargets = <<>>
  /\ cur = 0
  /\ request = NoRequest
  /\ results = <<>>
  /\ successCount = 0
  /\ failCount = 0
  /\ response = NoResponse
  /\ log = <<>>
  /\ \E p \in DirectInputs : first = [NoFirst EXCEPT !.given = p]
  /\ last = <<>>
  /\ source_url = 0
  /\ handlers = <<>>

directFrame == <<targets, source_url, handlers, store, runs, items, idx, request, results,
                 successCount, failCount, response, first, last>>

\* The first call, on the drawn properties.
DirectCall ==
  /\ pc = "start"
  /\ BeginCall(first.given, FALSE)
  /\ pc' = "loop"
  /\ log' = <<>>
  /\ UNCHANGED <<mode, directFrame>>

\* The for-loop of a direct call is over: the call returns its result.
DirectReturn ==
  /\ pc = "loop"
  /\ k > Len(syndicateToUrls)
  /\ mode \in DirectModes
  /\ ItemEnd(TRUE, log)
  /\ UNCHANGED <<store, request, last>>

\* The second call, on the syndication list the first call returned.
DirectAgain ==
  /\ pc = "returned"
  /\ mode = "direct"
  /\ ~first.threw
  /\ mode' = "again"
  /\ BeginCall([first.given EXCEPT
                  !.syndication = Array(first.result.syndicatedUrls)], FALSE)
  /\ pc' = "loop"
  /\ log' = <<>>
  /\ UNCHANGED directFrame

\* The second call, on the same post with its scalar request as a list.
DirectAsList ==
  /\ pc = "returned"
  /\ mode = "direct"
  /\ first.given.mp.kind = "string"
  /\ mode' = "aslist"
  /\ BeginCall([first.given EXCEPT !.mp = Array(first.given.mp.val)], FALSE)
  /\ pc' = "loop"
  /\ log' = <<>>
  /\ UNCHANGED directFrame

NextTargets ==
  \/ DirectCall
  \/ LoopStep
  \/ \E o \in Outcomes : SyndicateReturn(o)
  \/ DirectReturn
  \/ DirectAgain
  \/ DirectAsList

SpecTargets == InitTargets /\ [][NextTargets]_vars

\* ------------------------------------------- overlapping requests
\* syndicateController.post is an async Express handler: while one request
\* is suspended at an await (the database query, target.syndicate, fetch,
\* delay) the server handles another. Each request has its own locals in
\* handlers; the store is shared. The registry is the full one and the
\* posts collection is present.
Requests == {"r1", "r2"}

NoHandler ==
  [pc |-> "start", mode |-> "none", items |-> <<>>, idx |-> 0,
   postData |-> NoPost, syndicateToUrls |-> <<>>, k |-> 1,
   syndicatedUrls |-> <<>>, failedTargets |-> <<>>, cur |-> 0,
   request |-> NoRequest, response |-> NoResponse]

\* syndicateToTargets is entered with properties p (lines 101-109).
HandlerBegin(r, p) ==
  [r EXCEPT !.pc = "loop", !.postData = p,
            !.syndicateToUrls = Normalise(p.mp), !.k = 1,
            !.syndicatedUrls = SeedSyndicatedUrls(p.syndication),
            !.failedTargets = <<>>, !.cur = 0]

\* syndicatePost returned (success) or threw in the handler with locals r.
HandlerItemEnd(r, success) ==
  IF r.mode = "batch" /\ (success \/ Catcher(r.mode) = "item")
    THEN IF NeedsDelay(Len(r.items), r.idx)
           THEN [r EXCEPT !.pc = "delay"]
         ELSE [r EXCEPT !.pc = "done",
                        !.response = [type |-> "json", what |-> "batch",
                                      failed |-> FALSE]]
  ELSE [r EXCEPT !.pc = "done",
                 !.response =
                   IF success
                     THEN [type |-> "json", what |-> "post",
                           failed |-> Len(r.failedTargets) > 0]
                   ELSE [type |-> "next", what |-> "error",
                         failed |-> FALSE]]

concurrentFrame ==
  <<targets, source_url, runs, pc, mode, force, items, idx, postData,
    syndicateToUrls, k, syndicatedUrls, failedTargets, cur, request, results,
    successCount, failCount, response, log, first, last>>

\* The handler of request h runs up to its first await inside syndicatePost.
HandlerPost(h, sourceUrl) ==
  /\ handlers[h].pc = "start"
  /\ IF sourceUrl # 0
       THEN LET p == getPostData(store, sourceUrl)
                r == [handlers[h] EXCEPT !.mode = "single"] IN
            handlers' =
              [handlers EXCEPT ![h] =
                 IF p.url = 0
                   THEN [r EXCEPT !.pc = "done",
                                  !.response = [type |-> "json",
                                                what |-> "noPost",
                                                failed |-> FALSE]]
                 ELSE HandlerBegin(r, p)]
     ELSE \E o \in getAllPostData(store) :
            LET r == [handlers[h] EXCEPT
                        !.mode = "batch",
                        !.items = [i \in DOMAIN o |-> store[o[i]]]] IN
            handlers' =
              [handlers EXCEPT ![h] =
                 IF Len(o) = 0
                   THEN [r EXCEPT !.pc = "done",
                                  !.response = [type |-> "json",
                                                what |-> "noPending",
                                                failed |-> FALSE]]
                 ELSE HandlerBegin([r EXCEPT !.idx = 1], store[o[1]])]
  /\ UNCHANGED <<store, concurrentFrame>>

\* One iteration of the for-loop of syndicateToTargets in request h.
HandlerLoopStep(h) ==
  LET r == handlers[h] IN
  /\ r.pc = "loop"
  /\ r.k <= Len(r.syndicateToUrls)
  /\ LET url == r.syndicateToUrls[r.k]
         target == getSyndicationTarget(targets, url)
         alreadySyndicated ==
           IF target = -1 THEN "throw"
           ELSE hasSyndicationUrl(r.syndicatedUrls, url)
     IN handlers' =
          [handlers EXCEPT ![h] =
             IF alreadySyndicated = "throw" THEN HandlerItemEnd(r, FALSE)
             ELSE IF target # 0 /\ alreadySyndicated = "false"
               THEN [r EXCEPT !.pc = "syndicate", !.cur = target]
             ELSE [r EXCEPT !.k = r.k + 1]]
  /\ UNCHANGED <<store, concurrentFrame>>

\* target.syndicate settles with outcome o in request h.
HandlerSyndicateReturn(h, o) ==
  LET r == handlers[h] IN
  /\ r.pc = "syndicate"
  /\ handlers' =
       [handlers EXCEPT ![h] =
          [r EXCEPT
             !.pc = "loop", !.cur = 0,
             !.k = ContinueAt(r.k, o, Len(r.syndicateToUrls)),
             !.syndicatedUrls =
               IF Delivered(o)
                 THEN PushUrl(@, SyndicatedUrlOf(targets[r.cur]))
               ELSE @,
             !.failedTargets =
               IF Delivered(o) THEN @
               ELSE Append(@, FailedEntry(targets[r.cur],
                                          r.syndicateToUrls[r.k]))]]
  /\ UNCHANGED <<store, concurrentFrame>>

\* syndicatePost of request h sends the update.
HandlerSendUpdate(h) ==
  LET r == handlers[h] IN
  /\ r.pc = "loop"
  /\ r.k > Len(r.syndicateToUrls)
  /\ handlers' =
       [handlers EXCEPT ![h] =
          [r EXCEPT !.pc = "fetch",
                    !.request =
                      UpdateBody(r.postData.url,
                                 TargetsResult(r.failedTargets,
                                               r.syndicatedUrls))]]
  /\ UNCHANGED <<store, concurrentFrame>>

\* The update endpoint answered request h.
HandlerFetchReturn(h, ok) ==
  LET r == handlers[h] IN
  /\ r.pc = "fetch"
  /\ store' = IF ok THEN MicropubUpdate(store, r.request) ELSE store
  /\ handlers' = [handlers EXCEPT ![h] = HandlerItemEnd(r, ResponseOk(ok))]
  /\ UNCHANGED concurrentFrame

\* delay(2000) elapsed in request h: the batch loop takes its next post.
HandlerDelayDone(h) ==
  LET r == handlers[h] IN
  /\ r.pc = "delay"
  /\ handlers' =
       [handlers EXCEPT ![h] =
          HandlerBegin([r EXCEPT !.idx = r.idx + 1], r.items[r.idx + 1])]
  /\ UNCHANGED <<store, concurrentFrame>>

\* The stores of the overlapping requests: posts pending for two services,
\* or for one.
ConcurrentShapes ==
  {[status |-> "published", mp |-> Array(<<IdA, IdB>>),
    syndication |-> NoValue],
   [status |-> "published", mp |-> Scalar(IdB), syndication |-> NoValue]}

ConcurrentStores ==
  {[u \in Urls |-> [url |-> u, published |-> u, status |-> sh[u].status,
                    mp |-> sh[u].mp, syndication |-> sh[u].syndication]] :
     sh \in [Urls -> ConcurrentShapes]}

InitConcurrent ==
  /\ targets = <<TargetNoUid, TargetA, TargetACom, TargetB>>
  /\ store \in ConcurrentStores
  /\ handlers = [h \in Requests |-> NoHandler]
  /\ pc = "idle"
  /\ runs = 0
  /\ mode = "none"
  /\ force = FALSE
  /\ items = <<>>
  /\ idx = 0
  /\ postData = NoPost
  /\ syndicateToUrls = <<>>
  /\ k = 1
  /\ syndicatedUrls = <<>>
  /\ failedTargets = <<>>
  /\ cur = 0
  /\ request = NoRequest
  /\ results = <<>>
  /\ successCount = 0
  /\ failCount = 0
  /\ response = NoResponse
  /\ log = <<>>
  /\ first = NoFirst
  /\ last = [u \in Urls |-> NoLast]
  /\ source_url = 0

NextConcurrent ==
  \E h \in Requests :
    \/ \E sourceUrl \in 0..(MaxPosts + 1) : HandlerPost(h, sourceUrl)
    \/ HandlerLoopStep(h)
    \/ \E o \in Outcomes : HandlerSyndicateReturn(h, o)
    \/ HandlerSendUpdate(h)
    \/ \E ok \in BOOLEAN : HandlerFetchReturn(h, ok)
    \/ HandlerDelayDone(h)

SpecConcurrent == InitConcurrent /\ [][NextConcurrent]_vars

\* ===================================================================== claims
\* Two URLs with the same origin, one of them an entry of urls.
SameOriginEntry(urls, id) ==
  \E j \in DOMAIN urls :
    IsUrl(urls[j]) /\ IsUrl(id) /\ Origin(urls[j]) = Origin(id)

IsPrefix(a, b) == Len(a) <= Len(b) /\ SubSeq(b, 1, Len(a)) = a

AttemptsIn(lg) == {i \in DOMAIN lg : lg[i].ev = "attempt"}

\* C1: every update request syndicatePost sends deletes mp-syndicate-to and
\* does not replace it when no target failed, and replaces it with exactly
\* failedTargets and does not delete it when a target failed; a request does
\* one of the two and never both.
C1_ClearOrReplace ==
  pc = "fetch" =>
    /\ Len(failedTargets) = 0 =>
         DeletesPending(request) /\ ~request.replaceMp.present
    /\ Len(failedTargets) > 0 =>
         /\ request.replaceMp.present
         /\ request.replaceMp.val = failedTargets
         /\ ~DeletesPending(request)
    /\ DeletesPending(request) # request.replaceMp.present

\* A request sent after one delivery succeeded and another failed.
C1_Witness ==
  /\ pc = "fetch"
  /\ Len(failedTargets) > 0
  /\ Len(syndicatedUrls) > 0
  /\ request.replaceMp.val = failedTargets

\* C2: in a call without force, no delivery is attempted for an identifier
\* whose origin is the origin of an entry the post's syndication list
\* already held, and the prior entries stay, unchanged, at the head of
\* syndicatedUrls.
C2_PartialRetry ==
  mode = "direct" /\ pc # "start" =>
    LET prior == SeedSyndicatedUrls(first.given.syndication) IN
    /\ \A i \in AttemptsIn(log) : ~SameOriginEntry(prior, log[i].id)
    /\ IsPrefix(prior, syndicatedUrls)

\* C3: a second call on the syndication list the first call returned
\* attempts no target that succeeded in the first call, and every URL it
\* appends has an origin the list did not hold yet.
C3_Idempotence ==
  mode = "again" =>
    /\ \A i \in AttemptsIn(log) :
         ~\E j \in AttemptsIn(first.log) :
            first.log[j].out = "url" /\ first.log[j].target = log[i].target
    /\ \A n \in (Len(first.result.syndicatedUrls) + 1)..Len(syndicatedUrls) :
         ~SameOriginEntry(SubSeq(syndicatedUrls, 1, n - 1), syndicatedUrls[n])

\* C4: the call on a post whose mp-syndicate-to is the scalar x and the call
\* on the same post with the list [x], meeting the same delivery outcomes,
\* make the same attempts with the same results, both throw or both return,
\* and return the same syndicatedUrls and failedTargets.
C4_ScalarAsList ==
  mode = "aslist" /\ pc = "returned" =>
    /\ log = first.log
    /\ (response.type = "threw") = first.threw
    /\ ~first.threw =>
         TargetsResult(failedTargets, syndicatedUrls) = first.result

\* Both calls delivered to a target and got a URL.
C4_Witness ==
  /\ mode = "aslist"
  /\ pc = "returned"
  /\ \E i \in AttemptsIn(log) : log[i].out = "url"
  /\ first.given.mp.kind = "string"

\* C5: in single-post mode (force), every requested identifier that resolves
\* to a registered target has had a delivery attempt when the loop is over.
C5_ForceReattempts ==
  mode = "single" /\ force /\ pc = "fetch" =>
    \A i \in DOMAIN syndicateToUrls :
      getSyndicationTarget(targets, syndicateToUrls[i]) > 0 =>
        \E j \in AttemptsIn(log) : log[j].id = syndicateToUrls[i]

\* C6: under force, what syndicatedUrls keeps of the prior syndication list
\* (its entries before the URLs delivered in this call) is the prior list
\* without the entries whose origin is the origin of a requested identifier,
\* in the original order.
C6_ForcePruning ==
  mode = "single" /\ force /\ pc = "fetch" =>
    LET prior == SeedSyndicatedUrls(store[postData.url].syndication)
        delivered == Cardinality(AttemptsIn(log)) - Len(failedTargets)
        kept == SubSeq(syndicatedUrls, 1, Len(syndicatedUrls) - delivered)
        Requested(e) ==
          \E i \in DOMAIN syndicateToUrls :
            /\ IsUrl(e) /\ IsUrl(syndicateToUrls[i])
            /\ Origin(e) = Origin(syndicateToUrls[i])
        Unrelated(e) == ~Requested(e)
    IN kept = SelectSeq(prior, Unrelated)

\* The posts whose pipeline threw: in the loop, or on a rejected update.
Thrown(lg) ==
  {i \in DOMAIN lg :
     lg[i].ev = "throw" \/ (lg[i].ev = "update" /\ lg[i].out = "rejected")}

IsItem(e) == e.ev = "item"
IsPace(e) == e.ev \in {"item", "delay"}

\* C7: in batch mode failCount is the number of posts whose pipeline threw,
\* and when the batch is over every post of the list was started exactly
\* once, in order, whatever threw before it.
C7_BatchIsolation ==
  mode = "batch" =>
    /\ failCount = Cardinality(Thrown(log))
    /\ response.what = "batch" =>
         LET started == SelectSeq(log, IsItem) IN
         /\ Len(started) = Len(items)
         /\ \A i \in DOMAIN items : started[i].post = items[i].url

\* A finished batch whose first post threw and whose second post went through.
C7_Witness ==
  /\ mode = "batch"
  /\ response.what = "batch"
  /\ Len(results) = 2
  /\ ~results[1].success
  /\ results[2].success

\* C8: in batch mode posts and delays alternate, starting with a post; a
\* finished batch of N posts has had N - 1 delays, none after the last post.
C8_RateLimit ==
  mode = "batch" =>
    LET pace == SelectSeq(log, IsPace) IN
    /\ \A i \in DOMAIN pace :
         pace[i].ev = IF i % 2 = 1 THEN "item" ELSE "delay"
    /\ response.what = "batch" => Len(pace) = 2 * Len(items) - 1

\* A finished batch of two posts, the first of which failed, with its delay.
C8_Witness ==
  /\ mode = "batch"
  /\ response.what = "batch"
  /\ Len(items) = 2
  /\ failCount >= 1
  /\ ~results[1].success
  /\ \E i \in DOMAIN log : log[i].ev = "delay"

\* C9: what the batch query returned, while the store is as it was queried:
\* each stored post that has mp-syndicate-to and is not a draft, once, as
\* stored, newest first; no draft; posts with syndication entries included.
C9_PendingSelection ==
  mode = "batch" /\ Len(log) <= 1 =>
    /\ \A i, j \in DOMAIN items : i # j => items[i].url # items[j].url
    /\ {items[i].url : i \in DOMAIN items} =
         {u \in DOMAIN store :
            store[u].mp.kind # "undefined" /\ store[u].status # "draft"}
    /\ \A i \in DOMAIN items : items[i] = store[items[i].url]
    /\ \A i, j \in DOMAIN items :
         i < j => items[i].published >= items[j].published

\* A query that returned two posts, one of them already partly syndicated.
C9_Witness ==
  /\ mode = "batch"
  /\ Len(log) = 1
  /\ Len(items) = 2
  /\ \E i \in DOMAIN items : Len(items[i].syndication.val) > 0

\* C10: a post whose last accepted update came from a batch run in which
\* delivery to a target failed keeps an identifier resolving to that target
\* in its stored mp-syndicate-to and is returned by getAllPostData; the next
\* batch run that processes it attempts that target again and attempts none
\* of the targets that succeeded.
C10_FailedRetry ==
  /\ \A u \in DOMAIN last :
       last[u].batch /\ last[u].failed # {} =>
         /\ \A t \in last[u].failed :
              \E i \in DOMAIN store[u].mp.val :
                getSyndicationTarget(targets, store[u].mp.val[i]) = t
         /\ \A o \in getAllPostData(store) :
              \E i \in DOMAIN o : o[i] = u
  /\ mode = "batch" /\ pc = "fetch" /\ last[postData.url].batch =>
       /\ last[postData.url].failed \subseteq Attempted(log, postData.url)
       /\ last[postData.url].succeeded \cap Attempted(log, postData.url) = {}

\* A request answered as a no-op of kind what: a success outcome, nothing
\* delivered, no update sent, no error, and the handler has returned.
NoOpDone(what) ==
  /\ pc = "idle"
  /\ response = [type |-> "json", what |-> what, failed |-> FALSE]
  /\ log = <<>>
  /\ request = NoRequest
  /\ results = <<>>

\* C11: a request handled with no targets configured, a single-item request
\* naming a URL with no stored post, and a batch request whose search found
\* no pending post each end at once with a success outcome, with no delivery
\* attempt, no update request and no error.
C11_NoOp ==
  (mode \notin DirectModes /\ runs > 0) =>
    /\ Len(targets) = 0 => NoOpDone("noTargets")
    /\ Len(targets) > 0 /\ source_url # 0 /\ source_url \notin DOMAIN store
         => NoOpDone("noPost")
    /\ Len(targets) > 0 /\ source_url = 0 /\ Len(items) = 0
         => NoOpDone("noPending")

\* A batch request that found nothing pending after an earlier batch run had
\* updated a post of the store.
C11_Witness ==
  /\ runs > 0
  /\ Len(targets) > 0
  /\ source_url = 0
  /\ Len(items) = 0
  /\ response.what = "noPending"
  /\ \E u \in DOMAIN store : last[u].batch

\* C12: in batch mode results holds one entry per post processed, in the
\* order of allPostData; an entry is a success exactly when the update of its
\* post was accepted, and then carries failedTargets only when it is not
\* empty, and is a failure otherwise; successCount and failCount count the
\* entries of each kind and add up to the number of entries. A batch over N
\* posts ends with N entries and the success answer, whatever failed.
C12_BatchSummary ==
  mode = "batch" =>
    /\ Len(results) <= Len(items)
    /\ \A i \in DOMAIN results :
         /\ results[i].url = items[i].url
         /\ results[i].success <=>
              \E j \in DOMAIN log : /\ log[j].ev = "update"
                                    /\ log[j].post = results[i].url
                                    /\ log[j].out = "ok"
         /\ results[i].success =>
              (results[i].hasFailedTargets
                 <=> Len(results[i].failedTargets) > 0)
         /\ ~results[i].success => results[i] = Failed(items[i].url)
    /\ successCount = Cardinality({i \in DOMAIN results : results[i].success})
    /\ failCount = Cardinality({i \in DOMAIN results : ~results[i].success})
    /\ successCount + failCount = Len(results)
    /\ (pc = "idle" /\ Len(items) > 0) =>
         /\ Len(results) = Len(items)
         /\ response = [type |-> "json", what |-> "batch", failed |-> FALSE]

\* A batch over at least two posts ended with every post failed and the
\* success answer.
C12_Witness ==
  /\ mode = "batch"
  /\ pc = "idle"
  /\ response.what = "batch"
  /\ Len(results) >= 2
  /\ successCount = 0
  /\ failCount = Len(items)

\* The updates of history lg that the endpoint rejected.
RejectedIn(lg) ==
  {i \in DOMAIN lg : lg[i].ev = "update" /\ lg[i].out = "rejected"}

\* C13: when the update endpoint rejects the update of a single-item
\* request, the request ends with the error handed to next and with no
\* success answer or redirect; in batch mode a rejected update only makes the
\* entry of its post a failure, and the request never ends with an error.
C13_WriteBackFailure ==
  /\ (mode = "single" /\ RejectedIn(log) # {}) =>
       /\ pc = "idle"
       /\ response = [type |-> "next", what |-> "error", failed |-> FALSE]
       /\ store[postData.url].mp = postData.mp
  /\ mode = "batch" =>
       /\ response.type # "next"
       /\ \A i \in RejectedIn(log) :
            \E j \in DOMAIN results : results[j] = Failed(log[i].post)
       /\ (pc = "idle" /\ Len(items) > 0) => response.what = "batch"

\* A single-item request whose update was rejected after a delivery, and
\* that ended with the error.
C13_Witness ==
  /\ mode = "single"
  /\ RejectedIn(log) # {}
  /\ AttemptsIn(log) # {}
  /\ response.type = "next"

\* The attempts of history lg that failed: the delivery threw or returned
\* nothing.
FailedIn(lg) ==
  {i \in AttemptsIn(lg) : lg[i].out \in {"empty", "throw"}}

\* C14: a call of syndicateToTargets in which a delivery threw or returned
\* nothing still goes through every identifier of the request: when it
\* returns, each identifier that resolves to a target and has no entry in
\* the final list was attempted; and when a call raises, the error comes from
\* reading the identifier the loop stands at, never from a delivery.
C14_TargetIsolation ==
  (mode \in DirectModes /\ pc = "returned") =>
    /\ response.type = "returned" =>
         /\ k = Len(syndicateToUrls) + 1
         /\ \A i \in DOMAIN syndicateToUrls :
              (/\ getSyndicationTarget(targets, syndicateToUrls[i]) > 0
               /\ hasSyndicationUrl(syndicatedUrls, syndicateToUrls[i])
                    = "false")
                => \E j \in AttemptsIn(log) : log[j].id = syndicateToUrls[i]
    /\ response.type = "threw" =>
         /\ k <= Len(syndicateToUrls)
         /\ log[Len(log)].ev = "throw"
         /\ \/ getSyndicationTarget(targets, syndicateToUrls[k]) = -1
            \/ hasSyndicationUrl(syndicatedUrls, syndicateToUrls[k]) = "throw"

\* A call that returned after a delivery that threw, one that returned
\* nothing, or both, was followed by a delivery for a later identifier.
C14_Witness ==
  /\ mode = "direct"
  /\ pc = "returned"
  /\ response.type = "returned"
  /\ \E i \in FailedIn(log) : \E j \in AttemptsIn(log) :
       i < j /\ log[j].out = "url"

\* The list a direct call started from.
PriorOf(m) ==
  IF m = "again" THEN first.result.syndicatedUrls
  ELSE SeedSyndicatedUrls(first.given.syndication)

IsDelivered(e) == e.ev = "attempt" /\ e.out = "url"

\* C15: in a call of syndicateToTargets every settled attempt has one entry
\* in one accumulator: syndicatedUrls is the list the call started from
\* followed by the URLs the deliveries returned, in order, failedTargets has
\* one entry for each delivery that threw or returned nothing, and the
\* result names failedTargets exactly when a delivery failed.
C15_Classification ==
  (mode \in DirectModes /\ pc # "start") =>
    LET delivered == SelectSeq(log, IsDelivered) IN
    /\ syndicatedUrls =
         PriorOf(mode) \o [i \in 1..Len(delivered) |->
                             SyndicatedUrlOf(targets[delivered[i].target])]
    /\ Len(failedTargets) = Cardinality(FailedIn(log))
    /\ Len(failedTargets) + Len(syndicatedUrls) - Len(PriorOf(mode))
         = Cardinality({i \in AttemptsIn(log) : log[i].out # "-"})
    /\ pc = "returned" => (response.failed <=> FailedIn(log) # {})

\* A call returned after one delivery that returned a URL, one that returned
\* nothing and one that threw, or two of these.
C15_Witness ==
  /\ mode = "direct"
  /\ pc = "returned"
  /\ response.type = "returned"
  /\ response.failed
  /\ \E i, j \in AttemptsIn(log) : log[i].out = "url" /\ log[j].out = "empty"

\* The identifier parses and no registered target with a uid has its origin.
Unresolvable(id) ==
  /\ IsUrl(id)
  /\ \A t \in DOMAIN targets :
       targets[t].hasUid => Origin(targets[t].uid) # Origin(id)

\* C16: a call of syndicateToTargets attempts no delivery for an identifier
\* whose origin is that of no registered uid, and every attempt is for a
\* target that has a uid of the identifier's origin; a call whose identifiers
\* all are of this kind returns the list it started from and no
\* failedTargets; and no call raises at an identifier that parses, whether
\* or not the registry holds an entry without uid.
C16_UnresolvableInert ==
  (mode \in DirectModes /\ pc # "start") =>
    /\ \A j \in AttemptsIn(log) :
         /\ IsUrl(log[j].id)
         /\ ~Unresolvable(log[j].id)
         /\ targets[log[j].target].hasUid
         /\ Origin(targets[log[j].target].uid) = Origin(log[j].id)
    /\ (\A i \in DOMAIN syndicateToUrls : Unresolvable(syndicateToUrls[i]))
         => /\ log = <<>>
            /\ failedTargets = <<>>
            /\ syndicatedUrls = PriorOf(mode)
            /\ pc = "returned" =>
                 response = [type |-> "returned", what |-> "-",
                             failed |-> FALSE]
    /\ (pc = "returned" /\ response.type = "threw")
         => ~IsUrl(syndicateToUrls[k])

\* A call on a registry with an entry without uid returned after it passed
\* over an identifier of no registered origin and made a delivery for
\* another identifier.
C16_Witness ==
  /\ mode = "direct"
  /\ pc = "returned"
  /\ response.type = "returned"
  /\ \E t \in DOMAIN targets : ~targets[t].hasUid
  /\ \E i \in DOMAIN syndicateToUrls : Unresolvable(syndicateToUrls[i])
  /\ Cardinality(AttemptsIn(log)) = 1

\* C17: a call of syndicateToTargets on properties that name identifiers
\* never raises, whether or not the identifiers parse as URLs.
C17_MalformedNeverRaises ==
  (mode \in DirectModes /\ first.given.mp.kind # "undefined") =>
    response.type # "threw"

\* C18: whenever the loop of syndicateToTargets tests an identifier that
\* parses against its list, hasSyndicationUrl answers true exactly when an
\* entry of the list has the origin of the identifier.
C18_OriginEquality ==
  (/\ mode \in DirectModes
   /\ pc = "loop"
   /\ k <= Len(syndicateToUrls)
   /\ IsUrl(syndicateToUrls[k])) =>
    (hasSyndicationUrl(syndicatedUrls, syndicateToUrls[k]) = "true"
       <=> SameOriginEntry(syndicatedUrls, syndicateToUrls[k]))

\* C19: during and after a call of syndicateToTargets the syndication list
\* of the properties passed in is the list it was before the call.
C19_InputNotMutated ==
  (mode = "direct" /\ pc # "start") =>
    postData.syndication = first.given.syndication

\* C20: in the result a call of syndicateToTargets returns, no two entries of
\* failedTargets have the same origin.
C20_OnePerOrigin ==
  (mode \in DirectModes /\ pc = "returned" /\ response.type = "returned") =>
    \A i, j \in DOMAIN failedTargets :
      i # j => Origin(failedTargets[i]) # Origin(failedTargets[j])

IsFailedAttempt(e) == e.ev = "attempt" /\ e.out \in {"empty", "throw"}

\* C21: in a call of syndicateToTargets failedTargets holds, in order, the
\* identifiers of the request whose delivery threw or returned nothing.
C21_FailedIdentifiers ==
  (mode \in DirectModes /\ pc # "start") =>
    LET failed == SelectSeq(log, IsFailedAttempt) IN
    failedTargets = [i \in 1..Len(failed) |-> failed[i].id]

\* The identifiers of the attempts of history lg, in order.
AttemptedIds(lg) ==
  LET tried == SelectSeq(lg, LAMBDA e : e.ev = "attempt")
  IN [i \in 1..Len(tried) |-> tried[i].id]

\* a is b with some elements left out.
IsSubSequence(a, b) ==
  \E f \in [DOMAIN a -> DOMAIN b] :
    /\ \A i, j \in DOMAIN a : i < j => f[i] < f[j]
    /\ \A i \in DOMAIN a : a[i] = b[f[i]]

\* C22: in a call of syndicateToTargets at most one delivery is awaited at a
\* time, it is the last attempt made and is for the identifier the loop
\* stands at; the attempts follow the order of the request; and the list is
\* the one the call started from followed by the returned URLs in the order
\* of their attempts.
C22_Ordering ==
  (mode \in DirectModes /\ pc # "start") =>
    LET delivered == SelectSeq(log, IsDelivered) IN
    /\ \A i \in AttemptsIn(log) :
         log[i].out = "-" =>
           /\ i = Len(log)
           /\ pc = "syndicate"
           /\ log[i].id = syndicateToUrls[k]
           /\ log[i].target = cur
    /\ pc = "syndicate" => log[Len(log)].out = "-"
    /\ IsSubSequence(AttemptedIds(log),
                     SubSeq(syndicateToUrls, 1,
                            IF k <= Len(syndicateToUrls) THEN k
                            ELSE Len(syndicateToUrls)))
    /\ IsPrefix(PriorOf(mode), syndicatedUrls)
    /\ \A i \in 1..Len(delivered) :
         syndicatedUrls[Len(PriorOf(mode)) + i]
           = SyndicatedUrlOf(targets[delivered[i].target])
    /\ Len(syndicatedUrls) = Len(PriorOf(mode)) + Len(delivered)

\* A call that started from a list with an entry returned after deliveries
\* to two different targets that both returned a URL.
C22_Witness ==
  /\ mode = "direct"
  /\ pc = "returned"
  /\ response.type = "returned"
  /\ Len(PriorOf(mode)) > 0
  /\ \E i, j \in AttemptsIn(log) :
       /\ i < j
       /\ log[i].out = "url"
       /\ log[j].out = "url"
       /\ log[i].target # log[j].target

\* Request h is reconciling post u: between the entry of syndicateToTargets
\* and the answer to its update.
InFlight(h, u) ==
  /\ handlers[h].pc \in {"loop", "syndicate", "fetch"}
  /\ handlers[h].postData.url = u

\* C23: over the requests being handled, no two are reconciling the same
\* post at the same time.
C23_SingleFlight ==
  \A h1, h2 \in DOMAIN handlers : \A u \in DOMAIN store :
    (InFlight(h1, u) /\ InFlight(h2, u)) => h1 = h2

\* C24: a post whose last accepted update followed a reconciliation with no
\* failed target has no mp-syndicate-to in the store and is in the result of
\* no getAllPostData query made from then on: a batch run holds it only if
\* that update was sent in the run itself, after the run's query.
C24_ScopeExit ==
  \A u \in DOMAIN last :
    (last[u] # NoLast /\ last[u].failed = {}) =>
      /\ store[u].mp = NoValue
      /\ \A o \in getAllPostData(store) : \A i \in DOMAIN o : o[i] # u
      /\ (mode = "batch" /\ \E i \in DOMAIN items : items[i].url = u) =>
           \E j \in DOMAIN log : /\ log[j].ev = "update"
                                 /\ log[j].post = u
                                 /\ log[j].out = "ok"

\* A second batch run that processes a post still pending while another
\* post, cleared by the first run after a delivery, is not in its selection.
C24_Witness ==
  /\ mode = "batch"
  /\ runs = 2
  /\ Len(items) > 0
  /\ \E u \in DOMAIN last :
       /\ last[u].batch
       /\ last[u].failed = {}
       /\ last[u].succeeded # {}
       /\ \A i \in DOMAIN items : items[i].url # u

\* The posts of the item events of history lg, in order.
ItemsIn(lg) ==
  LET its == SelectSeq(lg, LAMBDA e : e.ev = "item")
  IN [i \in 1..Len(its) |-> its[i].post]

\* C25: a batch run takes the posts of its selection one by one in order,
\* each once; and, as long as every delivery and every update request
\* settles, a started batch run ends with its summary, after it took every
\* post of the selection and recorded an outcome for each.
C25_BatchCompletion ==
  /\ [](mode = "batch" =>
          ItemsIn(log) = [i \in 1..idx |-> items[i].url])
  /\ (mode = "batch" /\ pc # "idle")
       ~> (/\ mode = "batch"
           /\ pc = "idle"
           /\ response.what = "batch"
           /\ Len(results) = Len(items)
           /\ ItemsIn(log) = [i \in DOMAIN items |-> items[i].url])

\* A batch run over two posts or more ended although the pipeline of its
\* first post threw.
C25_Witness ==
  /\ mode = "batch"
  /\ pc = "idle"
  /\ response.what = "batch"
  /\ Len(items) >= 2
  /\ ~results[1].success

\* The URLs the reconciliation of the current post has added so far.
NewUrls ==
  SubSeq(syndicatedUrls, Len(SeedSyndicatedUrls(items[idx].syndication)) + 1,
         Len(syndicatedUrls))

\* C26: in batch runs, a rejected update leaves the stored post as it was
\* read; and no target delivers twice for a post without a rejected update
\* of that post in between: the URLs one reconciliation adds come from
\* different targets, and none comes from a target that had delivered for
\* the post's last accepted update.
C26_NoRepeatedDelivery ==
  (mode = "batch" /\ idx > 0) =>
    LET u == items[idx].url IN
    /\ (\E j \in RejectedIn(log) : log[j].post = u) =>
         /\ store[u].mp = items[idx].mp
         /\ store[u].syndication = items[idx].syndication
    /\ postData.url = u =>
         /\ \A i, j \in DOMAIN NewUrls : i # j => NewUrls[i] # NewUrls[j]
         /\ (pc \in {"loop", "syndicate", "fetch"} /\ last[u].batch) =>
              \A t \in last[u].succeeded :
                \A i \in DOMAIN NewUrls :
                  NewUrls[i] # SyndicatedUrlOf(targets[t])

\* C27: after an accepted update of a post the stored mp-syndicate-to is
\* absent when no delivery failed, and otherwise holds only uids of
\* registered targets whose delivery failed in that reconciliation, so no
\* identifier without a registered target stays in it; and every delivery
\* attempted for the post from then on is for one of those failed targets,
\* also when another target was registered in between.
C27_UnresolvableDropped ==
  /\ \A u \in DOMAIN store :
       last[u] # NoLast =>
         IF last[u].failed = {}
           THEN store[u].mp = NoValue
         ELSE /\ store[u].mp.kind = "array"
              /\ \A i \in DOMAIN store[u].mp.val :
                   /\ ~Unresolvable(store[u].mp.val[i])
                   /\ \E t \in last[u].failed :
                        store[u].mp.val[i] = targets[t].uid
  /\ (pc = "syndicate" /\ mode = "batch" /\ last[postData.url] # NoLast)
       => cur \in last[postData.url].failed

\* A batch run has had the update of a post accepted that named a service
\* not registered and a registered one whose delivery failed.
C27_Witness ==
  /\ mode = "batch"
  /\ idx > 0
  /\ pc \in {"delay", "idle"}
  /\ items[idx].mp.kind = "array"
  /\ \E i \in DOMAIN items[idx].mp.val : Unresolvable(items[idx].mp.val[i])
  /\ last[items[idx].url].batch
  /\ last[items[idx].url].failed # {}
  /\ store[items[idx].url].mp # items[idx].mp

\* C28: a single-item request for a stored post without mp-syndicate-to, on
\* a registry with a target that has a uid, raises at the first step of the
\* loop: it attempts no delivery, sends no update, and ends with the error
\* handed to next, not with a success answer.
C28_NoPendingSingle ==
  (/\ mode = "single"
   /\ log # <<>>
   /\ postData.mp.kind = "undefined"
   /\ \E t \in DOMAIN targets : targets[t].hasUid) =>
    /\ AttemptsIn(log) = {}
    /\ request = NoRequest
    /\ store[postData.url].mp = NoValue
    /\ pc \in {"loop", "idle"}
    /\ pc = "loop" => k = 1 /\ response = NoResponse
    /\ pc = "idle" =>
         response = [type |-> "next", what |-> "error", failed |-> FALSE]

\* A single-item request for a post that an earlier request had cleared
\* ended with the error.
C28_Witness ==
  /\ mode = "single"
  /\ pc = "idle"
  /\ postData.mp.kind = "undefined"
  /\ response.type = "next"
  /\ last[postData.url] # NoLast
  /\ last[postData.url].failed = {}

\* C29: a batch run in which no delivery failed and no update was rejected
\* leaves no post for getAllPostData to return.
C29_Convergence ==
  (/\ mode = "batch"
   /\ pc = "idle"
   /\ response.what = "batch"
   /\ RejectedIn(log) = {}
   /\ \A i \in DOMAIN results : ~results[i].hasFailedTargets) =>
    \A o \in getAllPostData(store) : Len(o) = 0

====
